---- MODULE Spec2Model ----
(***************************************************************************)
(* Errsim: named error-injection points (mooncake-store errsim.h/.cpp).    *)
(* Threads call check() on points while a test activates / resets them by  *)
(* name through the registry.  Every atomic load, store and fetch_sub and  *)
(* every mutex acquisition of the source is one step of the model.         *)
(***************************************************************************)
EXTENDS Integers, FiniteSets, Sequences, TLC

\* ---------------------------------------------------------------- bounds
NumThreads == 2
MaxCode == 2
MaxTimes == 2
\* the history counters saturate one above the largest finite budget
MaxCount == MaxTimes + 1

Threads == 1..NumThreads
NoThread == 0
\* the thread that runs the test body (activate, reset, guards)
Testers == {1}
Points == {"P1", "P2"}
NoPoint == "nullptr"
Names == {"EP_A", "EP_X"}
NoName == "-"
Keys == {"", "k1", "k2"}
\* the keys a test filters on
MatchKeys == {"", "k1"}
Codes == 1..MaxCode
Times == (-1)..MaxTimes

\* ErrsimPoint::name_ : the two points are defined under the same name (two
\* translation units with ERRSIM_POINT_DEF(EP_A)), the case the registry
\* resolves by overwriting; "EP_X" is a name no point is defined under.
name_ == [p \in Points |-> "EP_A"]

VARIABLES
    registry,    \* registry(): name -> point, NoPoint when absent
    built,       \* points whose constructor has run
    rmtx,        \* registry_mutex(): holder or NoThread
    kmtx,        \* ErrsimPoint::match_key_mutex_: holder or NoThread
    err_,        \* ErrsimPoint::err_
    remain_,     \* ErrsimPoint::remain_
    match_key_,  \* ErrsimPoint::match_key_
    pc,          \* position of each thread inside its current call
    op,          \* the call a thread is in, or the last one it completed
    name,        \* argument `name` of activate / reset / get
    key,         \* argument `key` of check, `match_key` of activate
    err,         \* local `err` of check, argument `err_code` of activate
    rem,         \* argument `times` of activate
    pt,          \* `this` of check / constructor, `pt` of activate / reset,
                 \* the pointer returned by get
    gname,       \* ErrsimGuard::name_ of the guard the thread holds
    last,        \* the call that returned in the last step, with its result
    \* ---- history: written by the steps, read by no step
    cfg,         \* arguments of the last completed activate / reset per point
    stable,      \* no activate / reset is in progress on the point
    activated,   \* some activate has ever reached the point
    fresh,       \* the check in flight began under the current cfg
    track,       \* whether overlap, done and fires are recorded and pure is kept
                 \* after the return; they are kept while the current cfg of the
                 \* point is a finite budget:
    pure,        \* no check was in flight while the current cfg was written
    overlap,     \* two checks of the point overlapped under the current cfg
    done,        \* checks begun and completed under the current cfg
    fires,       \* those of them that returned nonzero
    keyBehind,   \* match_key_ was last written before the activate that wrote err_
    remBehind,   \* remain_ was last stored before the activate that wrote err_
    keyOld,      \* keyBehind / remBehind when the check in flight read err_,
    remOld,      \* cleared by a later write of the field
    stale        \* some check read match_key_ / remain_ with keyOld / remOld set

regv == <<registry, built>>
lockv == <<rmtx, kmtx>>
pointv == <<err_, remain_, match_key_>>
argv == <<op, name, key, err, rem, pt, gname>>
histp == <<cfg, stable, activated, track, pure, overlap, done, fires>>
histt == <<fresh, keyBehind, remBehind, keyOld, remOld, stale>>
vars == <<regv, lockv, pointv, pc, argv, last, histp, histt>>

Inactive == [code |-> 0, key |-> "", times |-> 0, src |-> "init"]

\* what `last` holds: the call o(n) / p.check(k) returned v; f: the check began
\* under the configuration that is still current
Event(o, n, p, k, v, f) ==
    [op |-> o, name |-> n, pt |-> p, key |-> k, ret |-> v, fresh |-> f]

NoLast == Event("none", NoName, NoPoint, "", 0, FALSE)

\* the process before any static constructor has run
Start ==
    /\ registry = [n \in Names |-> NoPoint]
    /\ built = {}
    /\ rmtx = NoThread
    /\ kmtx = [p \in Points |-> NoThread]
    /\ err_ = [p \in Points |-> 0]
    /\ remain_ = [p \in Points |-> 0]
    /\ match_key_ = [p \in Points |-> ""]
    /\ pc = [t \in Threads |-> "idle"]
    /\ op = [t \in Threads |-> "none"]
    /\ name = [t \in Threads |-> NoName]
    /\ key = [t \in Threads |-> ""]
    /\ err = [t \in Threads |-> 0]
    /\ rem = [t \in Threads |-> 0]
    /\ pt = [t \in Threads |-> NoPoint]
    /\ gname = [t \in Threads |-> NoName]
    /\ cfg = [p \in Points |-> Inactive]
    /\ stable = [p \in Points |-> TRUE]
    /\ activated = [p \in Points |-> FALSE]
    /\ fresh = [t \in Threads |-> FALSE]
    /\ last = NoLast
    /\ pure = [p \in Points |-> TRUE]
    /\ overlap = [p \in Points |-> FALSE]
    /\ done = [p \in Points |-> 0]
    /\ fires = [p \in Points |-> 0]
    /\ keyBehind = [p \in Points |-> FALSE]
    /\ remBehind = [p \in Points |-> FALSE]
    /\ keyOld = [t \in Threads |-> FALSE]
    /\ remOld = [t \in Threads |-> FALSE]
    /\ stale = FALSE

Init == Start /\ track = FALSE

InitCount == Start /\ track = TRUE

\* ------------------------------------------------------------ helpers
CheckPcs == {"c_klock", "c_key", "c_rem", "c_sub", "c_reload", "c_st_rem", "c_st_err"}

InCheck(u, p) == pc[u] \in CheckPcs /\ pt[u] = p

Busy(p) == \E u \in Threads : InCheck(u, p)

Sat(n) == IF n < MaxCount THEN n + 1 ELSE MaxCount

\* the history counters of point p are kept: its current cfg is a finite budget
Counted(p) == track /\ cfg[p].times > 0

\* static initialisation is over: every point has been constructed
Started == built = Points

\* faulty variant of the lookup: an unknown name resolves to some constructed point
FindOrAny(n) ==
    IF registry[n] # NoPoint \/ built = {} THEN registry[n]
    ELSE CHOOSE p \in built : TRUE

\* registry().find(name): it->second, or NoPoint for registry().end()
Find(n) == registry[n]

\* ---------------------------------------- ErrsimPoint::ErrsimPoint(name)
CtorBegin(t, p) ==
    /\ pc[t] = "idle"
    /\ p \notin built
    /\ \A u \in Threads : ~(pc[u] = "k_lock" /\ pt[u] = p)
    /\ pc' = [pc EXCEPT ![t] = "k_lock"]
    /\ op' = [op EXCEPT ![t] = "ctor"]
    /\ pt' = [pt EXCEPT ![t] = p]
    /\ last' = NoLast
    /\ UNCHANGED <<regv, lockv, pointv, name, key, err, rem, gname, histp, histt>>

\* faulty variant of the registration: registry().emplace(name, this), which
\* keeps an entry that is already there (the first registration wins)
CtorRegisterFirstWins(t) ==
    /\ pc[t] = "k_lock"
    /\ rmtx = NoThread
    /\ registry' = [registry EXCEPT ![name_[pt[t]]] = IF @ = NoPoint THEN pt[t] ELSE @]
    /\ built' = built \cup {pt[t]}
    /\ pc' = [pc EXCEPT ![t] = "idle"]
    /\ op' = [op EXCEPT ![t] = "none"]
    /\ pt' = [pt EXCEPT ![t] = NoPoint]
    /\ last' = Event("ctor", name_[pt[t]], pt[t], "", 0, FALSE)
    /\ UNCHANGED <<lockv, pointv, name, key, err, rem, gname, histp, histt>>

\* lock_guard(registry_mutex()); registry()[name] = this;
CtorRegister(t) ==
    /\ pc[t] = "k_lock"
    /\ rmtx = NoThread
    /\ registry' = [registry EXCEPT ![name_[pt[t]]] = pt[t]]
    /\ built' = built \cup {pt[t]}
    /\ pc' = [pc EXCEPT ![t] = "idle"]
    /\ op' = [op EXCEPT ![t] = "none"]
    /\ pt' = [pt EXCEPT ![t] = NoPoint]
    /\ last' = Event("ctor", name_[pt[t]], pt[t], "", 0, FALSE)
    /\ UNCHANGED <<lockv, pointv, name, key, err, rem, gname, histp, histt>>

\* -------------------------------------------- ErrsimPoint::check(key)
\* a check of point p with key k that began under the current cfg (f)
\* returns v
Record(p, k, v, f) ==
    /\ last' = Event("check", NoName, p, k, v, f)
    /\ done' = IF f /\ Counted(p) THEN [done EXCEPT ![p] = Sat(@)] ELSE done
    /\ fires' = IF f /\ Counted(p) /\ v # 0 THEN [fires EXCEPT ![p] = Sat(@)] ELSE fires

\* the call returns v from inside the function body
CheckReturn(t, v) ==
    /\ pc' = [pc EXCEPT ![t] = "idle"]
    /\ op' = [op EXCEPT ![t] = "none"]
    /\ err' = [err EXCEPT ![t] = 0]
    /\ key' = [key EXCEPT ![t] = ""]
    /\ pt' = [pt EXCEPT ![t] = NoPoint]
    /\ fresh' = [fresh EXCEPT ![t] = FALSE]
    /\ keyOld' = [keyOld EXCEPT ![t] = FALSE]
    /\ remOld' = [remOld EXCEPT ![t] = FALSE]
    /\ Record(pt[t], key[t], v, fresh[t])
    /\ UNCHANGED <<name, rem, gname, cfg, stable, activated, track, pure,
                   overlap, keyBehind, remBehind>>

\* the call goes on to the statement at l
CheckGoto(t, l) ==
    /\ pc' = [pc EXCEPT ![t] = l]
    /\ last' = NoLast
    /\ UNCHANGED <<argv, histp, fresh, keyBehind, remBehind, keyOld, remOld>>

\* faulty variant of the first load: the test of err == 0 is missing, the call
\* goes on to the key filter with err = 0
CheckLoadErrNoFastPath(t, p, k) ==
    /\ pc[t] = "idle"
    /\ Started
    /\ overlap' = [overlap EXCEPT ![p] = @ \/ (Counted(p) /\ Busy(p))]
    /\ pure' = [pure EXCEPT ![p] = @ /\ ~(~stable[p] /\ err_[p] # 0)]
    /\ pc' = [pc EXCEPT ![t] = "c_klock"]
    /\ op' = [op EXCEPT ![t] = "check"]
    /\ pt' = [pt EXCEPT ![t] = p]
    /\ key' = [key EXCEPT ![t] = k]
    /\ err' = [err EXCEPT ![t] = err_[p]]
    /\ fresh' = [fresh EXCEPT ![t] = stable[p]]
    /\ keyOld' = [keyOld EXCEPT ![t] = keyBehind[p]]
    /\ remOld' = [remOld EXCEPT ![t] = remBehind[p]]
    /\ last' = NoLast
    /\ UNCHANGED <<done, fires>>
    /\ UNCHANGED <<regv, lockv, pointv, name, rem, gname, cfg, stable,
                   activated, track, keyBehind, remBehind, stale>>

\* int err = err_.load(); if (err == 0) return 0;
CheckLoadErr(t, p, k) ==
    /\ pc[t] = "idle"
    /\ Started
    /\ overlap' = [overlap EXCEPT ![p] = @ \/ (Counted(p) /\ Busy(p))]
    /\ pure' = [pure EXCEPT ![p] = @ /\ ~(~stable[p] /\ err_[p] # 0)]
    /\ IF err_[p] = 0
       THEN /\ Record(p, k, 0, stable[p])
            /\ UNCHANGED <<pc, op, pt, key, err, fresh, keyOld, remOld>>
       ELSE /\ pc' = [pc EXCEPT ![t] = "c_klock"]
            /\ op' = [op EXCEPT ![t] = "check"]
            /\ pt' = [pt EXCEPT ![t] = p]
            /\ key' = [key EXCEPT ![t] = k]
            /\ err' = [err EXCEPT ![t] = err_[p]]
            /\ fresh' = [fresh EXCEPT ![t] = stable[p]]
            /\ keyOld' = [keyOld EXCEPT ![t] = keyBehind[p]]
            /\ remOld' = [remOld EXCEPT ![t] = remBehind[p]]
            /\ last' = NoLast
            /\ UNCHANGED <<done, fires>>
    /\ UNCHANGED <<regv, lockv, pointv, name, rem, gname, cfg, stable,
                   activated, track, keyBehind, remBehind, stale>>

\* std::lock_guard<std::mutex> lock(match_key_mutex_);
CheckLockKey(t) ==
    /\ pc[t] = "c_klock"
    /\ kmtx[pt[t]] = NoThread
    /\ kmtx' = [kmtx EXCEPT ![pt[t]] = t]
    /\ CheckGoto(t, "c_key")
    /\ UNCHANGED <<regv, rmtx, pointv, stale>>

\* faulty variant of the key filter: an empty call key passes any filter
KeyMismatchEmptyPasses(mk, k) == mk # "" /\ k # "" /\ mk # k

\* the key filter: TRUE when the call is filtered out
KeyMismatch(mk, k) == mk # "" /\ mk # k

\* faulty variant of the key filter step: the early return leaves the
\* match_key lock held (lock() / unlock() around the test, no unlock on return)
CheckMatchKeyLeak(t) ==
    /\ pc[t] = "c_key"
    /\ stale' = (stale \/ keyOld[t])
    /\ IF KeyMismatch(match_key_[pt[t]], key[t])
       THEN CheckReturn(t, 0) /\ UNCHANGED kmtx
       ELSE CheckGoto(t, "c_rem") /\ kmtx' = [kmtx EXCEPT ![pt[t]] = NoThread]
    /\ UNCHANGED <<regv, rmtx, pointv>>

\* faulty variant of the key filter step: the budget is charged before the
\* key is compared, a filtered call takes a unit of a finite budget
CheckMatchKeyCharges(t) ==
    /\ pc[t] = "c_key"
    /\ kmtx' = [kmtx EXCEPT ![pt[t]] = NoThread]
    /\ stale' = (stale \/ keyOld[t])
    /\ IF KeyMismatch(match_key_[pt[t]], key[t])
       THEN /\ CheckReturn(t, 0)
            /\ remain_' = [remain_ EXCEPT ![pt[t]] = IF @ > 0 THEN @ - 1 ELSE @]
       ELSE /\ CheckGoto(t, "c_rem")
            /\ UNCHANGED remain_
    /\ UNCHANGED <<regv, rmtx, err_, match_key_>>

\* if (!match_key_.empty() && match_key_ != key) return 0;   } releases the lock
CheckMatchKey(t) ==
    /\ pc[t] = "c_key"
    /\ kmtx' = [kmtx EXCEPT ![pt[t]] = NoThread]
    /\ stale' = (stale \/ keyOld[t])
    /\ IF KeyMismatch(match_key_[pt[t]], key[t])
       THEN CheckReturn(t, 0)
       ELSE CheckGoto(t, "c_rem")
    /\ UNCHANGED <<regv, rmtx, pointv>>

\* int rem = remain_.load(); if (rem == 0) return 0; if (rem > 0) {...}
\* rem < 0: LOG(INFO); return err;
CheckLoadRemain(t) ==
    /\ pc[t] = "c_rem"
    /\ stale' = (stale \/ remOld[t])
    /\ IF remain_[pt[t]] = 0 THEN CheckReturn(t, 0)
       ELSE IF remain_[pt[t]] > 0 THEN CheckGoto(t, "c_sub")
       ELSE CheckReturn(t, err[t])
    /\ UNCHANGED <<regv, lockv, pointv>>

\* remain_.fetch_sub(1);
CheckFetchSub(t) ==
    /\ pc[t] = "c_sub"
    /\ remain_' = [remain_ EXCEPT ![pt[t]] = @ - 1]
    /\ CheckGoto(t, "c_reload")
    /\ UNCHANGED <<regv, lockv, err_, match_key_, stale>>

\* faulty variant of the reload test: `<= 0` for `< 0`, the call that takes
\* the last unit of the budget backs off
CheckReloadOffByOne(t) ==
    /\ pc[t] = "c_reload"
    /\ IF remain_[pt[t]] <= 0
       THEN CheckGoto(t, "c_st_rem")
       ELSE CheckReturn(t, err[t])
    /\ UNCHANGED <<regv, lockv, pointv, stale>>

\* if (remain_.load() < 0) {...}  else: LOG(INFO); return err;
CheckReload(t) ==
    /\ pc[t] = "c_reload"
    /\ IF remain_[pt[t]] < 0
       THEN CheckGoto(t, "c_st_rem")
       ELSE CheckReturn(t, err[t])
    /\ UNCHANGED <<regv, lockv, pointv, stale>>

\* remain_.store(0);
CheckStoreRemain(t) ==
    /\ pc[t] = "c_st_rem"
    /\ remain_' = [remain_ EXCEPT ![pt[t]] = 0]
    /\ CheckGoto(t, "c_st_err")
    /\ UNCHANGED <<regv, lockv, err_, match_key_, stale>>

\* err_.store(0); return 0;
CheckStoreErr(t) ==
    /\ pc[t] = "c_st_err"
    /\ err_' = [err_ EXCEPT ![pt[t]] = 0]
    /\ CheckReturn(t, 0)
    /\ UNCHANGED <<regv, lockv, remain_, match_key_, stale>>

\* ------------------- ErrsimPoint::activate(name, err_code, match_key, times)
\* faulty order of the writes of activate: the code is published first
ActivateOrderCodeFirst == <<"a_err", "a_klock", "a_rem">>

\* the three writes of activate in program order, by the label of their
\* first step: the match_key_ block, remain_.store, err_.store
ActivateOrder == <<"a_klock", "a_rem", "a_err">>

ActIndex(l) == CHOOSE i \in 1..Len(ActivateOrder) : ActivateOrder[i] = l

\* the statement after l; after the last one the function returns
ActAfter(l) ==
    IF ActIndex(l) = Len(ActivateOrder) THEN "a_ret"
    ELSE ActivateOrder[ActIndex(l) + 1]

\* an activate / reset reaches point p: the checks in flight belong to the past
Unsettle(p) ==
    /\ stable' = [stable EXCEPT ![p] = FALSE]
    /\ fresh' = [u \in Threads |-> IF InCheck(u, p) THEN FALSE ELSE fresh[u]]
    /\ pure' = [pure EXCEPT ![p] = ~Busy(p)]

\* an activate / reset of point p returns: c is the current configuration
Settle(p, c) ==
    /\ cfg' = [cfg EXCEPT ![p] = c]
    /\ stable' = [stable EXCEPT ![p] = TRUE]
    /\ pure' = [pure EXCEPT ![p] = (track /\ c.times > 0) => @]
    /\ overlap' = [overlap EXCEPT ![p] = FALSE]
    /\ done' = [done EXCEPT ![p] = 0]
    /\ fires' = [fires EXCEPT ![p] = 0]
    /\ UNCHANGED <<activated, track, histt>>

\* a step inside activate / reset / get that touches no history
Goto(t, l) ==
    /\ pc' = [pc EXCEPT ![t] = l]
    /\ last' = NoLast
    /\ UNCHANGED <<argv, histp, histt>>

\* the call returns to the caller: its locals are gone
Leave(t) ==
    /\ pc' = [pc EXCEPT ![t] = "idle"]
    /\ op' = [op EXCEPT ![t] = "none"]
    /\ name' = [name EXCEPT ![t] = NoName]
    /\ key' = [key EXCEPT ![t] = ""]
    /\ err' = [err EXCEPT ![t] = 0]
    /\ rem' = [rem EXCEPT ![t] = 0]
    /\ pt' = [pt EXCEPT ![t] = NoPoint]
    /\ UNCHANGED gname

\* the call activate(n, c, k, m) is made (o: by the test or by a guard)
ActivateCall(t, o, n, c, k, m) ==
    /\ pc[t] = "idle"
    /\ Started
    /\ pc' = [pc EXCEPT ![t] = "a_lock"]
    /\ op' = [op EXCEPT ![t] = o]
    /\ name' = [name EXCEPT ![t] = n]
    /\ err' = [err EXCEPT ![t] = c]
    /\ key' = [key EXCEPT ![t] = k]
    /\ rem' = [rem EXCEPT ![t] = m]
    /\ last' = NoLast
    /\ UNCHANGED <<regv, lockv, pointv, pt, histp, histt>>

ActivateBegin(t, n, c, k, m) ==
    /\ ActivateCall(t, "activate", n, c, k, m)
    /\ UNCHANGED gname

\* lock_guard(registry_mutex()); it = registry().find(name);
\* if (it == end()) { LOG(WARNING); return; }   pt = it->second;
ActivateLock(t) ==
    /\ pc[t] = "a_lock"
    /\ rmtx = NoThread
    /\ IF Find(name[t]) = NoPoint
       THEN /\ Leave(t)
            /\ last' = Event(op[t], name[t], NoPoint, "", 0, FALSE)
            /\ UNCHANGED <<rmtx, stable, activated, fresh, pure>>
       ELSE /\ rmtx' = t
            /\ pt' = [pt EXCEPT ![t] = Find(name[t])]
            /\ pc' = [pc EXCEPT ![t] = ActivateOrder[1]]
            /\ activated' = [activated EXCEPT ![Find(name[t])] = TRUE]
            /\ Unsettle(Find(name[t]))
            /\ last' = NoLast
            /\ UNCHANGED <<op, name, key, err, rem, gname>>
    /\ UNCHANGED <<regv, kmtx, pointv, cfg, track, overlap, done, fires,
                   keyBehind, remBehind, keyOld, remOld, stale>>

\* std::lock_guard<std::mutex> klock(pt->match_key_mutex_);
ActivateLockKey(t) ==
    /\ pc[t] = "a_klock"
    /\ kmtx[pt[t]] = NoThread
    /\ kmtx' = [kmtx EXCEPT ![pt[t]] = t]
    /\ Goto(t, "a_key")
    /\ UNCHANGED <<regv, rmtx, pointv>>

\* faulty variant of the key store: an empty match_key keeps the filter of the
\* earlier activation (the configurations are merged)
ActivateStoreKeyMerge(t) ==
    /\ pc[t] = "a_key"
    /\ match_key_' = [match_key_ EXCEPT ![pt[t]] = IF key[t] = "" THEN @ ELSE key[t]]
    /\ kmtx' = [kmtx EXCEPT ![pt[t]] = NoThread]
    /\ pc' = [pc EXCEPT ![t] = ActAfter("a_klock")]
    /\ keyBehind' = [keyBehind EXCEPT ![pt[t]] = FALSE]
    /\ keyOld' = [u \in Threads |-> IF InCheck(u, pt[t]) THEN FALSE ELSE keyOld[u]]
    /\ last' = NoLast
    /\ UNCHANGED <<regv, rmtx, err_, remain_, argv, histp, fresh, remBehind,
                   remOld, stale>>

\* pt->match_key_ = match_key;   } releases the lock
ActivateStoreKey(t) ==
    /\ pc[t] = "a_key"
    /\ match_key_' = [match_key_ EXCEPT ![pt[t]] = key[t]]
    /\ kmtx' = [kmtx EXCEPT ![pt[t]] = NoThread]
    /\ pc' = [pc EXCEPT ![t] = ActAfter("a_klock")]
    /\ keyBehind' = [keyBehind EXCEPT ![pt[t]] = FALSE]
    /\ keyOld' = [u \in Threads |-> IF InCheck(u, pt[t]) THEN FALSE ELSE keyOld[u]]
    /\ last' = NoLast
    /\ UNCHANGED <<regv, rmtx, err_, remain_, argv, histp, fresh, remBehind,
                   remOld, stale>>

\* pt->remain_.store(times);
ActivateStoreRemain(t) ==
    /\ pc[t] = "a_rem"
    /\ remain_' = [remain_ EXCEPT ![pt[t]] = rem[t]]
    /\ pc' = [pc EXCEPT ![t] = ActAfter("a_rem")]
    /\ remBehind' = [remBehind EXCEPT ![pt[t]] = FALSE]
    /\ remOld' = [u \in Threads |-> IF InCheck(u, pt[t]) THEN FALSE ELSE remOld[u]]
    /\ last' = NoLast
    /\ UNCHANGED <<regv, lockv, err_, match_key_, argv, histp, fresh,
                   keyBehind, keyOld, stale>>

\* faulty variant of the code store: err_ shared by all points (a static member)
ActivateStoreErrShared(t) ==
    /\ pc[t] = "a_err"
    /\ err_' = [p \in Points |-> err[t]]
    /\ pc' = [pc EXCEPT ![t] = ActAfter("a_err")]
    /\ keyBehind' = [keyBehind EXCEPT ![pt[t]] = ActIndex("a_klock") > ActIndex("a_err")]
    /\ remBehind' = [remBehind EXCEPT ![pt[t]] = ActIndex("a_rem") > ActIndex("a_err")]
    /\ last' = NoLast
    /\ UNCHANGED <<regv, lockv, remain_, match_key_, argv, histp, fresh,
                   keyOld, remOld, stale>>

\* pt->err_.store(err_code);
ActivateStoreErr(t) ==
    /\ pc[t] = "a_err"
    /\ err_' = [err_ EXCEPT ![pt[t]] = err[t]]
    /\ pc' = [pc EXCEPT ![t] = ActAfter("a_err")]
    /\ keyBehind' = [keyBehind EXCEPT ![pt[t]] = ActIndex("a_klock") > ActIndex("a_err")]
    /\ remBehind' = [remBehind EXCEPT ![pt[t]] = ActIndex("a_rem") > ActIndex("a_err")]
    /\ last' = NoLast
    /\ UNCHANGED <<regv, lockv, remain_, match_key_, argv, histp, fresh,
                   keyOld, remOld, stale>>

\* } : the registry lock is released, activate returns
ActivateReturn(t) ==
    /\ pc[t] = "a_ret"
    /\ rmtx' = NoThread
    /\ Leave(t)
    /\ last' = Event(op[t], name[t], pt[t], "", 0, FALSE)
    /\ Settle(pt[t], [code |-> err[t], key |-> key[t], times |-> rem[t], src |-> op[t]])
    /\ UNCHANGED <<regv, kmtx, pointv>>

\* ------------------------------------------------ ErrsimPoint::reset(name)
ResetCall(t, o, n) ==
    /\ pc[t] = "idle"
    /\ Started
    /\ pc' = [pc EXCEPT ![t] = "r_lock"]
    /\ op' = [op EXCEPT ![t] = o]
    /\ name' = [name EXCEPT ![t] = n]
    /\ last' = NoLast
    /\ UNCHANGED <<regv, lockv, pointv, key, err, rem, pt, histp, histt>>

ResetBegin(t, n) ==
    /\ ResetCall(t, "reset", n)
    /\ UNCHANGED gname

\* lock_guard(registry_mutex()); it = registry().find(name);
\* if (it == end()) return;   pt = it->second;
ResetLock(t) ==
    /\ pc[t] = "r_lock"
    /\ rmtx = NoThread
    /\ IF Find(name[t]) = NoPoint
       THEN /\ Leave(t)
            /\ last' = Event(op[t], name[t], NoPoint, "", 0, FALSE)
            /\ UNCHANGED <<rmtx, stable, fresh, pure>>
       ELSE /\ rmtx' = t
            /\ pt' = [pt EXCEPT ![t] = Find(name[t])]
            /\ pc' = [pc EXCEPT ![t] = "r_err"]
            /\ Unsettle(Find(name[t]))
            /\ last' = NoLast
            /\ UNCHANGED <<op, name, key, err, rem, gname>>
    /\ UNCHANGED <<regv, kmtx, pointv, cfg, activated, track, overlap,
                   done, fires, keyBehind, remBehind, keyOld, remOld, stale>>

\* pt->err_.store(0);
ResetStoreErr(t) ==
    /\ pc[t] = "r_err"
    /\ err_' = [err_ EXCEPT ![pt[t]] = 0]
    /\ Goto(t, "r_rem")
    /\ UNCHANGED <<regv, lockv, remain_, match_key_>>

\* pt->remain_.store(0);
ResetStoreRemain(t) ==
    /\ pc[t] = "r_rem"
    /\ remain_' = [remain_ EXCEPT ![pt[t]] = 0]
    /\ pc' = [pc EXCEPT ![t] = "r_klock"]
    /\ remBehind' = [remBehind EXCEPT ![pt[t]] = FALSE]
    /\ remOld' = [u \in Threads |-> IF InCheck(u, pt[t]) THEN FALSE ELSE remOld[u]]
    /\ last' = NoLast
    /\ UNCHANGED <<regv, lockv, err_, match_key_, argv, histp, fresh,
                   keyBehind, keyOld, stale>>

\* std::lock_guard<std::mutex> klock(pt->match_key_mutex_);
ResetLockKey(t) ==
    /\ pc[t] = "r_klock"
    /\ kmtx[pt[t]] = NoThread
    /\ kmtx' = [kmtx EXCEPT ![pt[t]] = t]
    /\ Goto(t, "r_key")
    /\ UNCHANGED <<regv, rmtx, pointv>>

\* pt->match_key_.clear();   } releases the lock
ResetClearKey(t) ==
    /\ pc[t] = "r_key"
    /\ match_key_' = [match_key_ EXCEPT ![pt[t]] = ""]
    /\ kmtx' = [kmtx EXCEPT ![pt[t]] = NoThread]
    /\ pc' = [pc EXCEPT ![t] = "r_ret"]
    /\ keyBehind' = [keyBehind EXCEPT ![pt[t]] = FALSE]
    /\ keyOld' = [u \in Threads |-> IF InCheck(u, pt[t]) THEN FALSE ELSE keyOld[u]]
    /\ last' = NoLast
    /\ UNCHANGED <<regv, rmtx, err_, remain_, argv, histp, fresh, remBehind,
                   remOld, stale>>

\* } : the registry lock is released, reset returns
ResetReturn(t) ==
    /\ pc[t] = "r_ret"
    /\ rmtx' = NoThread
    /\ Leave(t)
    /\ last' = Event(op[t], name[t], pt[t], "", 0, FALSE)
    /\ Settle(pt[t], [code |-> 0, key |-> "", times |-> 0, src |-> op[t]])
    /\ UNCHANGED <<regv, kmtx, pointv>>

\* -------------------------------------------------- ErrsimPoint::get(name)
GetBegin(t, n) ==
    /\ pc[t] = "idle"
    /\ Started
    /\ pc' = [pc EXCEPT ![t] = "g_lock"]
    /\ op' = [op EXCEPT ![t] = "get"]
    /\ name' = [name EXCEPT ![t] = n]
    /\ last' = NoLast
    /\ UNCHANGED <<regv, lockv, pointv, key, err, rem, pt, gname, histp, histt>>

\* lock_guard(registry_mutex()); it = find(name);
\* return it != end() ? it->second : nullptr;
GetLookup(t) ==
    /\ pc[t] = "g_lock"
    /\ rmtx = NoThread
    /\ Leave(t)
    /\ last' = Event("get", name[t], Find(name[t]), "", 0, FALSE)
    /\ UNCHANGED <<regv, lockv, pointv, histp, histt>>

\* ------------------------------------------------------------ ErrsimGuard
\* ErrsimGuard(point, err_code, match_key, times) : name_(point.name())
\*     { ErrsimPoint::activate(name_, err_code, match_key, times); }
GuardCtor(t, p, c, k, m) ==
    /\ gname[t] = NoName
    /\ ActivateCall(t, "guard", name_[p], c, k, m)
    /\ gname' = [gname EXCEPT ![t] = name_[p]]

\* faulty variant of the destructor: the reset goes to a name that is not the
\* point's (name_ no longer holds it)
GuardDtorLostName(t) ==
    /\ gname[t] # NoName
    /\ ResetCall(t, "unguard", "EP_X")
    /\ gname' = [gname EXCEPT ![t] = NoName]

\* ~ErrsimGuard() { ErrsimPoint::reset(name_); }
GuardDtor(t) ==
    /\ gname[t] # NoName
    /\ ResetCall(t, "unguard", gname[t])
    /\ gname' = [gname EXCEPT ![t] = NoName]

\* ---------------------------------------------------------- specification
\* the constructors of the static points, and check() from any thread
Production(t) ==
    \/ \E p \in Points : CtorBegin(t, p)
    \/ CtorRegister(t)
    \/ \E p \in Points, k \in Keys : CheckLoadErr(t, p, k)
    \/ CheckLockKey(t)
    \/ CheckMatchKey(t)
    \/ CheckLoadRemain(t)
    \/ CheckFetchSub(t)
    \/ CheckReload(t)
    \/ CheckStoreRemain(t)
    \/ CheckStoreErr(t)

ActivateSteps(t) ==
    \/ ActivateLock(t)
    \/ ActivateLockKey(t)
    \/ ActivateStoreKey(t)
    \/ ActivateStoreRemain(t)
    \/ ActivateStoreErr(t)
    \/ ActivateReturn(t)

ResetSteps(t) ==
    \/ ResetLock(t)
    \/ ResetLockKey(t)
    \/ ResetStoreErr(t)
    \/ ResetStoreRemain(t)
    \/ ResetClearKey(t)
    \/ ResetReturn(t)

\* a test that drives the points by name while any thread may look one up
Next ==
    \E t \in Threads :
        \/ Production(t)
        \/ \E n \in Names, c \in Codes, k \in MatchKeys, m \in Times :
               t \in Testers /\ ActivateBegin(t, n, c, k, m)
        \/ ActivateSteps(t)
        \/ \E n \in Names : t \in Testers /\ ResetBegin(t, n)
        \/ ResetSteps(t)
        \/ \E n \in Names : GetBegin(t, n)
        \/ GetLookup(t)

Spec == Init /\ [][Next]_vars

\* a test that activates without key filter, the history counters recorded
NextCount ==
    \E t \in Threads :
        \/ Production(t)
        \/ \E n \in Names, c \in Codes, m \in Times :
               t \in Testers /\ ActivateBegin(t, n, c, "", m)
        \/ ActivateSteps(t)
        \/ \E n \in Names : t \in Testers /\ ResetBegin(t, n)
        \/ ResetSteps(t)

SpecCount == InitCount /\ [][NextCount]_vars

\* a test that drives the points through ErrsimGuard
NextGuard ==
    \E t \in Threads :
        \/ Production(t)
        \/ \E p \in Points, c \in Codes, k \in MatchKeys, m \in Times :
               t \in Testers /\ GuardCtor(t, p, c, k, m)
        \/ ActivateSteps(t)
        \/ t \in Testers /\ GuardDtor(t)
        \/ ResetSteps(t)

SpecGuard == Init /\ [][NextGuard]_vars

\* the budgets of the test with fair scheduling
LiveTimes == {-1, 1}

\* a step of thread t inside a call it has begun
LiveStep(t) ==
    \/ CtorRegister(t)
    \/ CheckLockKey(t) \/ CheckMatchKey(t) \/ CheckLoadRemain(t)
    \/ CheckFetchSub(t) \/ CheckReload(t) \/ CheckStoreRemain(t) \/ CheckStoreErr(t)
    \/ ActivateSteps(t)
    \/ ResetSteps(t)
    \/ GetLookup(t)

\* the test of Next with one code, under fair scheduling
NextLive ==
    \E t \in Threads :
        \/ Production(t)
        \/ \E n \in Names, k \in MatchKeys, m \in LiveTimes :
               t \in Testers /\ ActivateBegin(t, n, 1, k, m)
        \/ ActivateSteps(t)
        \/ \E n \in Names : t \in Testers /\ ResetBegin(t, n)
        \/ ResetSteps(t)
        \/ \E n \in Names : GetBegin(t, n)
        \/ GetLookup(t)

\* fair scheduling and fair mutexes: a thread inside a call that can take its
\* next step again and again eventually takes it
SpecLive == Init /\ [][NextLive]_vars /\ \A t \in Threads : SF_vars(LiveStep(t))

\* ------------------------------------------------------------- properties
Min(a, b) == IF a < b THEN a ELSE b

\* the current configuration of p was made by activate(.., c # 0, "", N > 0),
\* is complete, and no check was in flight while it was written
FiniteUnfiltered(p) ==
    /\ stable[p]
    /\ pure[p]
    /\ cfg[p].code # 0
    /\ cfg[p].key = ""
    /\ cfg[p].times > 0

\* C1: budget ceiling. After activate(name, c, "", N), N > 0, the checks made
\* under that activation return nonzero at most N times, whatever their
\* interleaving.
BudgetCeiling ==
    \A p \in Points : FiniteUnfiltered(p) => fires[p] <= cfg[p].times

\* C2: exact budget. Once M >= N checks made under activate(name, c, "", N)
\* have all returned, exactly N of them have returned the code.
ExactBudget ==
    \A p \in Points :
        (FiniteUnfiltered(p) /\ ~Busy(p) /\ done[p] >= cfg[p].times)
            => fires[p] = cfg[p].times

\* C6: sequential countdown. When the checks made under activate(name, c, "", N),
\* N > 0, do not overlap one another, the first N return c and every later
\* one returns 0.
SequentialCountdown ==
    \A p \in Points :
        (FiniteUnfiltered(p) /\ ~overlap[p]) =>
            /\ fires[p] = Min(done[p], cfg[p].times)
            /\ (last.op = "check" /\ last.pt = p /\ last.fresh) =>
                   last.ret = IF done[p] <= cfg[p].times THEN cfg[p].code ELSE 0

\* C6 witness: with N = 2 the third and later sequential checks have returned 0
\* after two that returned the code
SequentialCountdownSeen ==
    \E p \in Points :
        /\ FiniteUnfiltered(p) /\ ~overlap[p]
        /\ cfg[p].times = 2
        /\ done[p] = MaxCount
        /\ fires[p] = 2
        /\ last.op = "check" /\ last.pt = p /\ last.fresh /\ last.ret = 0

\* the last step returned from a check that began under the current, complete
\* configuration of its point
FreshCheck == last.op = "check" /\ last.fresh

\* C3: infinite budget until reset. After activate(name, c, "", -1) has
\* returned every check of the point returns c until reset(name) is invoked,
\* and every check that starts after reset(name) has returned yields 0 while no
\* new activate happens.
InfiniteUntilReset ==
    FreshCheck =>
        LET c == cfg[last.pt] IN
        /\ (c.code # 0 /\ c.key = "" /\ c.times = -1) => last.ret = c.code
        /\ c.src = "reset" => last.ret = 0

\* the fields of p are as activate(name, c, k, -1) left them
InfiniteIntact(p) ==
    /\ cfg[p].code # 0 /\ cfg[p].times = -1
    /\ err_[p] = cfg[p].code /\ remain_[p] = -1

NeverActivated ==
    \A p \in Points :
        (p \in built /\ ~activated[p]) =>
            /\ err_[p] = 0 /\ remain_[p] = 0 /\ match_key_[p] = ""
            /\ ~Busy(p)
            /\ (last.op = "check" /\ last.pt = p) => last.ret = 0

\* C5 witness: a check with key "k1" of a never-activated point has returned 0
\* while another point is active and an activate is on its way
NeverActivatedSeen ==
    \E p, q \in Points :
        /\ ~activated[p] /\ last.op = "check" /\ last.pt = p
        /\ last.key = "k1" /\ last.ret = 0
        /\ err_[q] # 0 /\ remain_[q] # 0
        /\ \E t \in Threads : pc[t] = "a_lock"

\* C7: scoped activation round trip. Constructing an ErrsimGuard on a
\* registered point activates it with the given code, key and times; once the
\* guard's scope has ended the point is inactive, and every check that starts
\* afterwards returns 0 for any key until a later activation. A point is under
\* a guard's configuration only while the guard lives.
GuardRoundTrip ==
    /\ \A t \in Threads :
           (pc[t] = "a_ret" /\ op[t] = "guard") =>
               /\ pt[t] = registry[name[t]]
               /\ match_key_[pt[t]] = key[t]
               /\ err_[pt[t]] \in {0, err[t]}
               /\ (cfg[pt[t]].src = "init" /\ rem[t] <= 0) =>
                      (err_[pt[t]] = err[t] /\ remain_[pt[t]] = rem[t])
    /\ \A p \in Points :
           /\ (stable[p] /\ cfg[p].src = "unguard") =>
                  (err_[p] = 0 /\ match_key_[p] = "")
           /\ (stable[p] /\ cfg[p].src = "guard") =>
                  \E t \in Threads :
                      \/ gname[t] = name_[p]
                      \/ op[t] = "unguard" /\ name[t] = name_[p] /\ pc[t] = "r_lock"
    /\ (FreshCheck /\ cfg[last.pt].src = "unguard") => last.ret = 0

\* C7 witness: after the scope of a guard has ended, a check with key "k1" that
\* began afterwards has returned 0
GuardRoundTripSeen ==
    /\ FreshCheck /\ cfg[last.pt].src = "unguard" /\ activated[last.pt]
    /\ last.key = "k1" /\ last.ret = 0
    /\ \A t \in Threads : gname[t] = NoName

\* no point is defined under the name n
Unknown(n) == n \in Names /\ \A p \in Points : name_[p] # n

\* a call on an unknown name has found nothing and holds nothing
UnknownInert ==
    /\ \A n \in Names : Unknown(n) => registry[n] = NoPoint
    /\ (last.op \in {"activate", "reset", "get"} /\ Unknown(last.name)) =>
           last.pt = NoPoint
    /\ \A t \in Threads :
           Unknown(name[t]) => (pc[t] \in {"a_lock", "r_lock", "g_lock"} /\ rmtx # t)

\* thread t takes a step of a call on an unknown name
UnknownStep(t) ==
    \/ pc[t] = "idle" /\ pc'[t] # "idle" /\ Unknown(name'[t])
    \/ Unknown(name[t]) /\ pc'[t] # pc[t]

\* C8: unknown names. For a name that was never registered reset and activate
\* return without finding a point and add no registry entry, get returns
\* not-found, and no step of the three changes the registry or the code,
\* remaining or match_key of any point.
UnknownNames ==
    /\ []UnknownInert
    /\ [][\A t \in Threads : UnknownStep(t) => UNCHANGED <<registry, pointv>>]_vars

\* C8 witness: activate on the unknown name has returned without a point while
\* a registered point is active
UnknownNamesSeen ==
    /\ last.op = "activate" /\ last.name = "EP_X" /\ last.pt = NoPoint
    /\ registry["EP_X"] = NoPoint
    /\ \E p \in Points : err_[p] # 0 /\ remain_[p] # 0 /\ match_key_[p] # ""

\* C9: publication order of activate. activate writes match_key, then
\* remaining, then the code last: a check that has read the nonzero code of an
\* activation A never afterwards reads a match_key or a remaining older than
\* the one A wrote.
PublicationOrder == ~stale

\* C9 witness: a check with key "k2" that overlaps an activation replacing the
\* filter "k1" by no filter has read the new code, passed the key filter and
\* read a positive remaining before the activation has returned
PublicationOrderSeen ==
    \E t, u \in Threads :
        /\ pc[t] = "a_ret" /\ op[t] = "activate" /\ key[t] = ""
        /\ cfg[pt[t]].src = "activate" /\ cfg[pt[t]].key = "k1"
        /\ cfg[pt[t]].code # err[t]
        /\ InCheck(u, pt[t]) /\ pc[u] = "c_sub"
        /\ key[u] = "k2" /\ err[u] = err[t]

\* C10: empty call key, as the header documents check. A check with an empty
\* key returns nonzero on any active point, also when the point was activated
\* with a non-empty match_key.
EmptyKeyMatchesAny ==
    (FreshCheck /\ last.key = "" /\ InfiniteIntact(last.pt)) => last.ret # 0

\* C11: auto-deactivation on exhaustion. When the check that consumes the last
\* allowed fire of a finite activation takes remaining to exactly 0, the point
\* is fully deactivated: the stored code and remaining are both 0 afterwards.
AutoDeactivation ==
    (FreshCheck /\ last.ret # 0 /\ cfg[last.pt].times > 0 /\ remain_[last.pt] = 0) =>
        err_[last.pt] = 0

\* thread t is about to return from an activate of a point whose current
\* configuration is an earlier activation with a nonzero code
Reactivating(t) ==
    /\ pc[t] = "a_ret" /\ op[t] = "activate"
    /\ cfg[pt[t]].src = "activate" /\ cfg[pt[t]].code # 0

\* C12: re-activation overwrites wholesale. activate(name, c2, k2, t2) on a
\* point that is active with (c1, k1, t1) leaves match_key k2, and, when no
\* check ran on the point during the call, exactly code c2 and remaining t2
\* once it returns: no field of the earlier activation survives.
ReactivationOverwrites ==
    \A t \in Threads :
        Reactivating(t) =>
            /\ match_key_[pt[t]] = key[t]
            /\ err_[pt[t]] \in {0, err[t]}
            /\ pure[pt[t]] => (err_[pt[t]] = err[t] /\ remain_[pt[t]] = rem[t])

\* C12 witness: an activation with another code, no filter and another budget
\* is about to return on a point active with filter "k1"; no check interfered
ReactivationOverwritesSeen ==
    \E t \in Threads :
        /\ Reactivating(t) /\ pure[pt[t]]
        /\ cfg[pt[t]].key = "k1" /\ key[t] = ""
        /\ cfg[pt[t]].code # err[t] /\ cfg[pt[t]].times = 2 /\ rem[t] = -1
        /\ remain_[pt[t]] = -1

\* C13: zero budget never fires. While an activation with a nonzero code and
\* times = 0 is the current one, no check of the point returns nonzero, under
\* any interleaving with other checks.
ZeroBudgetSilent ==
    (FreshCheck /\ cfg[last.pt].code # 0 /\ cfg[last.pt].times = 0) => last.ret = 0

\* the step leaves the code, remaining and match_key of point p as they are
FieldsKept(p) ==
    /\ err_'[p] = err_[p]
    /\ remain_'[p] = remain_[p]
    /\ match_key_'[p] = match_key_[p]

\* the current configuration of p is a complete activation with times = -1,
\* and stays so over the step: the step is no step of an activate or a reset of p
InfiniteCurrent(p) ==
    /\ stable[p] /\ stable'[p]
    /\ cfg[p].code # 0 /\ cfg[p].times = -1

\* C14: an infinite-budget activation is left only by reset or a new activate.
\* While the current activation of a point has times = -1 no step of a check,
\* one that began before the activation included, changes the point's code,
\* remaining or match_key.
InfiniteOnlyLeftByReset ==
    [][\A p \in Points : InfiniteCurrent(p) => FieldsKept(p)]_vars

\* C15: meaning of remaining. The remaining counter of a point is negative
\* only if its current activation, or the activate that is writing it, was
\* made with a negative (infinite) times; under a finite activation and after
\* reset it is >= 0.
RemainingMeaning ==
    \A p \in Points :
        remain_[p] < 0 =>
            \/ cfg[p].times < 0
            \/ \E t \in Threads : pt[t] = p /\ op[t] = "activate" /\ rem[t] < 0

\* only a check that has read a nonzero code is past its first load, and no
\* check holds the registry lock
SlowPathHasCode ==
    \A t \in Threads :
        pc[t] \in CheckPcs => (err[t] # 0 /\ op[t] = "check" /\ rmtx # t)

\* the step is a whole check: the call returned in the step it began in
FastPathStep == last'.op = "check" /\ pc' = pc

\* C16: inactive fast path. A check that reads code = 0 returns 0 after that
\* single atomic read, acquires neither the match_key lock nor the registry
\* lock, and leaves code, remaining and match_key unchanged; only a check that
\* read a nonzero code goes further.
InactiveFastPath ==
    /\ []SlowPathHasCode
    /\ [][FastPathStep =>
             /\ err_[last'.pt] = 0 /\ last'.ret = 0
             /\ UNCHANGED <<lockv, pointv, regv>>]_vars

\* C16 witness: during the first activation of a point, while the activating
\* thread holds the registry lock and the point's match_key lock, a check of
\* the point with key "k1" has returned 0
InactiveFastPathSeen ==
    \E t \in Threads :
        /\ pc[t] = "a_key" /\ cfg[pt[t]].src = "init"
        /\ rmtx = t /\ kmtx[pt[t]] = t
        /\ last.op = "check" /\ last.pt = pt[t] /\ last.key = "k1" /\ last.ret = 0

\* the lock order: a check never holds the registry lock and holds the
\* match_key lock only for its key test; activate and reset hold a match_key
\* lock only inside the registry lock
LockOrder ==
    /\ \A t \in Threads : rmtx = t => pc[t] \notin CheckPcs
    /\ \A p \in Points :
           kmtx[p] # NoThread =>
               \/ pc[kmtx[p]] = "c_key" /\ pt[kmtx[p]] = p
               \/ pc[kmtx[p]] \in {"a_key", "r_key"} /\ pt[kmtx[p]] = p /\ rmtx = kmtx[p]

ByNameFindsEntry ==
    /\ last.op = "get" => last.pt = registry[last.name]
    /\ last.op \in {"activate", "reset"} => last.pt = registry[last.name]
    /\ \A t \in Threads :
           (rmtx = t /\ op[t] \in {"activate", "reset"}) =>
               (pt[t] = registry[name[t]] /\ pt[t] # NoPoint)
    /\ \A n \in Names : Unknown(n) => registry[n] = NoPoint

\* a registration that returns in this step makes its point the entry of its
\* name and leaves the other names alone; no other step changes the registry
RegistrationStep ==
    IF last'.op = "ctor"
    THEN registry' = [registry EXCEPT ![last'.name] = last'.pt]
    ELSE registry' = registry

\* a step of the activate or reset that holds the registry lock changes the
\* fields of its own point only
ActsOnOwnPoint ==
    \A t \in Threads :
        (rmtx = t /\ pc'[t] # pc[t]) =>
            \A p \in Points : p # pt[t] => FieldsKept(p)

\* C18: registry mapping. After any sequence of registrations get(name)
\* returns the point most recently registered under the name (one entry per
\* name, the last registration wins) and not-found for a name never
\* registered; activate and reset by name act on exactly that point.
RegistryMapping ==
    /\ []ByNameFindsEntry
    /\ [][RegistrationStep /\ ActsOnOwnPoint]_vars

\* C18 witness: both points were registered under "EP_A", "P1" last; an
\* activate by that name has written "P1" and not "P2", and get has returned "P1"
RegistryMappingSeen ==
    /\ built = Points
    /\ last.op = "get" /\ last.name = "EP_A" /\ last.pt = "P1"
    /\ cfg["P1"].src = "activate" /\ err_["P1"] # 0 /\ match_key_["P1"] = "k1"
    /\ ~activated["P2"] /\ err_["P2"] = 0

\* an activate of the point of check u has written match_key and remaining
\* and not yet its code: the nonzero code u holds is that of an earlier
\* activation, and differs from the one being written
HoldsEarlierCode(u) ==
    \E t \in Threads :
        /\ pc[t] = "a_err" /\ pt[t] = pt[u]
        /\ err[u] # 0 /\ err[u] # err[t]

\* check u reads remaining in this step and returns its code
FiresOnRemaining(u) ==
    /\ pc[u] \in {"c_rem", "c_reload"}
    /\ pc'[u] = "idle"
    /\ last'.ret # 0

\* C19: no stale code. Every nonzero value a check returns is the code of the
\* activation whose match_key and remaining the call evaluated: a check never
\* returns the code of an earlier activation on the remaining a later
\* activation has written.
NoStaleCode ==
    [][\A u \in Threads : FiresOnRemaining(u) => ~HoldsEarlierCode(u)]_vars

\* thread u takes a step of a check that has not passed the key filter: its
\* first load, the match_key lock, or the key test
BeforeFilterStep(u) ==
    \/ pc[u] = "idle" /\ pc'[u] = "c_klock"
    \/ pc[u] = "c_klock" /\ pc'[u] = "c_key"
    \/ pc[u] = "c_key" /\ pc'[u] # "c_key"

\* check u returns from the key test in this step: it is filtered out
FilteredStep(u) == pc[u] = "c_key" /\ pc'[u] = "idle"

\* C20: mismatched calls are free. A check whose key does not match the
\* point's non-empty match_key returns 0 from the key test and no step of it
\* changes code or remaining, so such calls take nothing from the budget left
\* to the matching ones.
MismatchedFree ==
    [][\A u \in Threads :
          /\ BeforeFilterStep(u) => UNCHANGED <<err_, remain_, match_key_>>
          /\ FilteredStep(u) =>
                 (last'.ret = 0 /\ KeyMismatch(match_key_[pt[u]], key[u]))
          /\ (pc[u] = "c_key" /\ KeyMismatch(match_key_[pt[u]], key[u])) =>
                 (pc'[u] = "c_key" \/ FilteredStep(u))]_vars

\* C20 witness: under a filter on "k1" with the finite budget 2, a call with
\* key "k2" has returned 0 and the whole budget is still there
MismatchedFreeSeen ==
    /\ FreshCheck /\ last.key = "k2" /\ last.ret = 0
    /\ cfg[last.pt].key = "k1" /\ cfg[last.pt].times = 2
    /\ err_[last.pt] = cfg[last.pt].code /\ remain_[last.pt] = 2
    /\ match_key_[last.pt] = "k1"

====
